---- MODULE Spec2Model ----
(***************************************************************************)
(* websauna.system.model: the transaction retry decorator (retry.py) and   *)
(* the nested mutable JSON tracker (json.py), as state machines.           *)
(*                                                                         *)
(* Conventions.  An optional Python value (None or a value, an attribute   *)
(* that may be absent, a local that may be unbound) is a set with at most  *)
(* one element: {} is None/absent/unbound, {x} is the value x.             *)
(***************************************************************************)
EXTENDS Integers, Sequences, FiniteSets, TLC

(***************************************************************************)
(* Bounds of the retry model.                                              *)
(***************************************************************************)
\* largest configured retry_attempt_count
MaxRetry == 3
\* number of invocations of the decorated function in one behaviour
MaxCalls == 2

(***************************************************************************)
(* Part I: retry.py                                                        *)
(***************************************************************************)
VARIABLES
    pc,                  \* position inside decorated_func: idle, loop, work, commit, except, done
    manager,             \* {} when tm / get_tm() gave None, {"tm"} otherwise
    retry_attempt_count, \* manager.retry_attempt_count: {} when the attribute is absent
    _txn,                \* manager._txn: {} or {id of the current transaction}
    latest_retry_count,  \* manager.latest_retry_count: {} until first written
    num,                 \* the loop variable of line 143: {} while unbound
    nextNum,             \* next value range(retry_attempt_count) yields
    txn,                 \* local txn of line 147: {} or {id}
    resources,           \* txn._resources of the local txn
    val,                 \* local val of line 153
    exc,                 \* the exception caught at line 156
    latest_exc,          \* local latest_exc of line 142
    outcome,             \* how the invocation ended
    entryTxn,            \* manager._txn when the invocation was entered
    entryLatest,         \* manager.latest_retry_count when the invocation was entered
    workOut,             \* what func did in the current attempt: none, returned, raised
    attempts,            \* per attempt of this invocation: what happened
    nBegin,              \* manager.begin() calls made by this invocation
    nWork,               \* func() calls made by this invocation
    nCommit,             \* txn.commit() calls made by this invocation
    nCommitOk,           \* txn.commit() calls of this invocation that returned
    txnSeq,              \* transactions created so far (ids are 1..txnSeq)
    calls                \* invocations entered so far

retryVars == <<pc, manager, retry_attempt_count, _txn, latest_retry_count, num,
               nextNum, txn, resources, val, exc, latest_exc, outcome, entryTxn,
               entryLatest, workOut, attempts, nBegin, nWork, nCommit, nCommitOk, txnSeq, calls>>

\* State of json.py (Part II).
VARIABLES
    heap,       \* id -> plain list or dict (the raw values)
    colDefault, \* column.default.arg of the JSON column: a value
    attr,       \* record -> {} before construction, {value} of the JSON attribute after
    dirty,      \* record -> number of times the attribute was flagged modified
    cur,        \* the value the client code holds: {} or {value}
    curRec,     \* the record from whose attribute the client reached cur
    pure,       \* cur was reached from an attribute by indexed/key reads only
    last,       \* the last call made: its name, whether it mutates, whether it raised
    muts,       \* mutating calls made so far
    ret         \* what the last __json__ or coerce call gave: {} or {<<heap after it, value>>}

jsonVars == <<heap, colDefault, attr, dirty, cur, curRec, pure, last, muts, ret>>

vars == <<retryVars, jsonVars>>

\* Values the unit of work may return.
Vals == {1, 2}

\* Resource managers that may join a transaction:
\*   "sql"   has should_retry, true exactly for serialization conflicts
\*   "cache" has should_retry, false for every error
\*   "mail"  has no should_retry attribute
DataManagers == {"sql", "cache", "mail"}

\* Errors the unit of work or commit() may raise.
Errors == {"conflict", "value"}

\* getattr(dm, 'should_retry', None) is not None
HasShouldRetry(dm) == dm \in {"sql", "cache"}

\* dm.should_retry(error)
should_retry(dm, error) == dm = "sql" /\ error = "conflict"

\* The verdict of one resource manager on an error: it has the predicate and
\* the predicate accepts the error.
Accepts(dm, err) == HasShouldRetry(dm) /\ should_retry(dm, err)

\* is_retryable as it would be if every error were taken for a conflict.
is_retryable_always(res, error) == TRUE

\* is_retryable as it would be if every resource manager had to accept.
is_retryable_all(res, error) ==
    \A dm \in res : HasShouldRetry(dm) /\ should_retry(dm, error.err)

\* retry.py is_retryable: True when some resource manager of the transaction
\* has should_retry and it accepts the error; otherwise None (falsy).
is_retryable(res, error) ==
    \E dm \in res : HasShouldRetry(dm) /\ should_retry(dm, error.err)

\* An exception object.  at/src give it its identity: the attempt that raised
\* it and whether func ("work") or txn.commit() ("commit") raised it.
Exception(type, err, at, src) == [type |-> type, err |-> err, at |-> at, src |-> src]

\* "return val" as it would be if the wrapper dropped the value.
Returned_nothing(v) == [kind |-> "return", val |-> {}, exc |-> {}, cause |-> {}]

NoOutcome == [kind |-> "none", val |-> {}, exc |-> {}, cause |-> {}]
Returned(v) == [kind |-> "return", val |-> {v}, exc |-> {}, cause |-> {}]
Raised(e, cause) == [kind |-> "raise", val |-> {}, exc |-> {e}, cause |-> cause]

\* ensure_transactionless as it would be without the check of _txn.
ensure_transactionless_unchecked(t) == TRUE

\* ensure_transactionless: raises when transaction_manager._txn is truthy.
ensure_transactionless(t) == t = {}

\* "not retry_attempt_count": the attribute is absent (None) or 0.
NotConfigured(r) == r = {} \/ r = {0}

\* range(n + 1): one attempt too many.
RangeHas_one_more(r, i) == \E n \in r : i <= n

\* range(n) yields i next
RangeHas(r, i) == \E n \in r : i < n

InitRetry ==
    /\ pc = "idle"
    /\ manager = {}
    /\ retry_attempt_count = {}
    /\ _txn \in {{}, {0}}
    /\ latest_retry_count = {}
    /\ num = {}
    /\ nextNum = 0
    /\ txn = {}
    /\ resources = {}
    /\ val = {}
    /\ exc = {}
    /\ latest_exc = {}
    /\ outcome = NoOutcome
    /\ entryTxn = {}
    /\ entryLatest = {}
    /\ workOut = "none"
    /\ attempts = <<>>
    /\ nBegin = 0
    /\ nWork = 0
    /\ nCommit = 0
    /\ nCommitOk = 0
    /\ txnSeq = 0
    /\ calls = 0

Finish(o) ==
    /\ pc' = "done"
    /\ outcome' = o

\* Lines 126-142: an invocation of decorated_func up to the attempt loop.
\* m is the manager tm / get_tm() gives, r its retry_attempt_count.
Enter(m, r) ==
    /\ pc = "idle"
    /\ calls < MaxCalls
    /\ calls' = calls + 1
    /\ manager' = m
    /\ retry_attempt_count' = r
    /\ entryTxn' = _txn
    /\ entryLatest' = latest_retry_count
    /\ workOut' = "none"
    /\ num' = {}
    /\ nextNum' = 0
    /\ txn' = {}
    /\ resources' = {}
    /\ val' = {}
    /\ exc' = {}
    /\ latest_exc' = {}
    /\ attempts' = <<>>
    /\ nBegin' = 0
    /\ nWork' = 0
    /\ nCommit' = 0
    /\ nCommitOk' = 0
    /\ IF m = {}
         THEN \* line 132 assert; with assertions stripped, None._txn at line 31
              \E t \in {"AssertionError", "AttributeError"} :
                  Finish(Raised(Exception(t, "", 0, "entry"), {}))
         ELSE IF ~ensure_transactionless(_txn)
         THEN Finish(Raised(Exception("TransactionAlreadyInProcess", "", 0, "entry"), {}))
         ELSE IF NotConfigured(r)
         THEN Finish(Raised(Exception("NotRetryable", "", 0, "entry"), {}))
         ELSE pc' = "loop" /\ outcome' = NoOutcome
    /\ UNCHANGED <<_txn, latest_retry_count, txnSeq>>
    /\ UNCHANGED jsonVars

\* Lines 143-150 as they would be if every attempt checked
\* ensure_transactionless before begin().
Begin_rechecks ==
    /\ pc = "loop"
    /\ RangeHas(retry_attempt_count, nextNum)
    /\ num' = {nextNum}
    /\ nextNum' = nextNum + 1
    /\ IF ensure_transactionless(_txn)
         THEN /\ txnSeq' = txnSeq + 1
              /\ txn' = {txnSeq + 1}
              /\ _txn' = {txnSeq + 1}
              /\ resources' = {}
              /\ nBegin' = nBegin + 1
              /\ latest_retry_count' = {nextNum}
              /\ workOut' = "none"
              /\ pc' = "work"
              /\ UNCHANGED outcome
         ELSE /\ Finish(Raised(Exception("TransactionAlreadyInProcess", "", 0, "entry"), {}))
              /\ UNCHANGED <<txnSeq, txn, _txn, resources, nBegin, latest_retry_count, workOut>>
    /\ UNCHANGED <<manager, retry_attempt_count, val, exc, latest_exc,
                   entryTxn, entryLatest, attempts, nWork, nCommit, nCommitOk, calls>>
    /\ UNCHANGED jsonVars

\* Lines 143-150 as they would be if the recorded index were one-based.
Begin_counts_from_one ==
    /\ pc = "loop"
    /\ RangeHas(retry_attempt_count, nextNum)
    /\ num' = {nextNum}
    /\ nextNum' = nextNum + 1
    /\ txnSeq' = txnSeq + 1
    /\ txn' = {txnSeq + 1}
    /\ _txn' = {txnSeq + 1}
    /\ resources' = {}
    /\ nBegin' = nBegin + 1
    /\ latest_retry_count' = {nextNum + 1}
    /\ workOut' = "none"
    /\ pc' = "work"
    /\ UNCHANGED <<manager, retry_attempt_count, val, exc, latest_exc, outcome,
                   entryTxn, entryLatest, attempts, nWork, nCommit, nCommitOk, calls>>
    /\ UNCHANGED jsonVars

\* Lines 143-150: the loop takes its next value, begins a transaction and
\* records the attempt index.  manager.begin() makes the new transaction the
\* manager's current one.
Begin ==
    /\ pc = "loop"
    /\ RangeHas(retry_attempt_count, nextNum)
    /\ num' = {nextNum}
    /\ nextNum' = nextNum + 1
    /\ txnSeq' = txnSeq + 1
    /\ txn' = {txnSeq + 1}
    /\ _txn' = {txnSeq + 1}
    /\ resources' = {}
    /\ nBegin' = nBegin + 1
    /\ latest_retry_count' = {nextNum}
    /\ workOut' = "none"
    /\ pc' = "work"
    /\ UNCHANGED <<manager, retry_attempt_count, val, exc, latest_exc, outcome,
                   entryTxn, entryLatest, attempts, nWork, nCommit, nCommitOk, calls>>
    /\ UNCHANGED jsonVars

\* Line 163 as it would be if the transaction of the last attempt were
\* aborted before CannotRetryAnymore is raised.
Exhausted_aborts ==
    /\ pc = "loop"
    /\ ~RangeHas(retry_attempt_count, nextNum)
    /\ _txn' = {}
    /\ IF num = {}
         THEN Finish(Raised(Exception("UnboundLocalError", "", 0, "exit"), {}))
         ELSE Finish(Raised(Exception("CannotRetryAnymore", "", 0, "exit"), latest_exc))
    /\ UNCHANGED <<manager, retry_attempt_count, latest_retry_count, num,
                   nextNum, txn, resources, val, exc, latest_exc, entryTxn, entryLatest, workOut,
                   attempts, nBegin, nWork, nCommit, nCommitOk, txnSeq, calls>>
    /\ UNCHANGED jsonVars

\* Line 163: the loop is exhausted.  num + 1 is evaluated for the message;
\* with num unbound (the range was empty) that is an UnboundLocalError.
Exhausted ==
    /\ pc = "loop"
    /\ ~RangeHas(retry_attempt_count, nextNum)
    /\ IF num = {}
         THEN Finish(Raised(Exception("UnboundLocalError", "", 0, "exit"), {}))
         ELSE Finish(Raised(Exception("CannotRetryAnymore", "", 0, "exit"), latest_exc))
    /\ UNCHANGED <<manager, retry_attempt_count, _txn, latest_retry_count, num,
                   nextNum, txn, resources, val, exc, latest_exc, entryTxn, entryLatest, workOut,
                   attempts, nBegin, nWork, nCommit, nCommitOk, txnSeq, calls>>
    /\ UNCHANGED jsonVars

ThisAttempt == CHOOSE n \in num : TRUE

\* The record of one finished attempt: the exception it ended with ({} when
\* it committed), the value func returned ({} when it raised) and whether a
\* participating resource manager accepted the exception for a retry.
Attempt(e, v, committed, retryable) ==
    [exc |-> e, val |-> v, committed |-> committed, retryable |-> retryable]

\* Line 153, func returns v; the resource managers in joined have joined the
\* transaction while it ran.
WorkReturns(joined, v) ==
    /\ pc = "work"
    /\ nWork' = nWork + 1
    /\ resources' = joined
    /\ val' = {v}
    /\ workOut' = "returned"
    /\ pc' = "commit"
    /\ UNCHANGED <<manager, retry_attempt_count, _txn, latest_retry_count, num,
                   nextNum, txn, exc, latest_exc, outcome, entryTxn, entryLatest, attempts,
                   nBegin, nCommit, nCommitOk, txnSeq, calls>>
    /\ UNCHANGED jsonVars

\* Line 153, func raises.
WorkRaises(joined, err) ==
    /\ pc = "work"
    /\ nWork' = nWork + 1
    /\ resources' = joined
    /\ exc' = {Exception("app", err, ThisAttempt, "work")}
    /\ workOut' = "raised"
    /\ pc' = "except"
    /\ UNCHANGED <<manager, retry_attempt_count, _txn, latest_retry_count, num,
                   nextNum, txn, val, latest_exc, outcome, entryTxn, entryLatest, attempts,
                   nBegin, nCommit, nCommitOk, txnSeq, calls>>
    /\ UNCHANGED jsonVars

\* Lines 154-155 as they would be without "return val": the loop goes on
\* after a commit that succeeded.
CommitReturns_no_return ==
    /\ pc = "commit"
    /\ nCommit' = nCommit + 1
    /\ nCommitOk' = nCommitOk + 1
    /\ _txn' = IF _txn = txn THEN {} ELSE _txn
    /\ attempts' = Append(attempts, Attempt({}, val, TRUE, FALSE))
    /\ pc' = "loop"
    /\ UNCHANGED <<manager, retry_attempt_count, latest_retry_count, num, nextNum,
                   txn, resources, val, exc, latest_exc, outcome, entryTxn,
                   entryLatest, workOut, nBegin, nWork, txnSeq, calls>>
    /\ UNCHANGED jsonVars

\* Lines 154-155, txn.commit() returns: the manager has no transaction any
\* more and the wrapper returns val.
CommitReturns ==
    /\ pc = "commit"
    /\ nCommit' = nCommit + 1
    /\ nCommitOk' = nCommitOk + 1
    /\ _txn' = IF _txn = txn THEN {} ELSE _txn
    /\ attempts' = Append(attempts, Attempt({}, val, TRUE, FALSE))
    /\ Finish(Returned(CHOOSE v \in val : TRUE))
    /\ UNCHANGED <<manager, retry_attempt_count, latest_retry_count, num, nextNum,
                   txn, resources, val, exc, latest_exc, entryTxn, entryLatest, workOut, nBegin, nWork,
                   txnSeq, calls>>
    /\ UNCHANGED jsonVars

\* Line 154, txn.commit() raises.
CommitRaises(err) ==
    /\ pc = "commit"
    /\ nCommit' = nCommit + 1
    /\ exc' = {Exception("app", err, ThisAttempt, "commit")}
    /\ pc' = "except"
    /\ UNCHANGED <<manager, retry_attempt_count, _txn, latest_retry_count, num,
                   nextNum, txn, resources, val, latest_exc, outcome, entryTxn, entryLatest, workOut,
                   attempts, nBegin, nWork, nCommitOk, txnSeq, calls>>
    /\ UNCHANGED jsonVars

\* Lines 156-161: the handler of the attempt's exception.
Except ==
    /\ pc = "except"
    /\ LET e == CHOOSE x \in exc : TRUE IN
         /\ attempts' = Append(attempts, Attempt(exc, IF workOut = "returned" THEN val ELSE {}, FALSE,
                                             \E dm \in resources : Accepts(dm, e.err)))
         /\ IF is_retryable(resources, e)
              THEN /\ latest_exc' = exc
                   /\ pc' = "loop"
                   /\ UNCHANGED outcome
              ELSE /\ Finish(Raised(e, {}))
                   /\ UNCHANGED latest_exc
    /\ UNCHANGED <<manager, retry_attempt_count, _txn, latest_retry_count, num,
                   nextNum, txn, resources, val, exc, entryTxn, entryLatest, workOut, nBegin, nWork,
                   nCommit, nCommitOk, txnSeq, calls>>
    /\ UNCHANGED jsonVars

\* The caller has the result and may invoke the function again.
Return ==
    /\ pc = "done"
    /\ pc' = "idle"
    /\ UNCHANGED <<manager, retry_attempt_count, _txn, latest_retry_count, num,
                   nextNum, txn, resources, val, exc, latest_exc, outcome,
                   entryTxn, entryLatest, workOut, attempts, nBegin, nWork, nCommit, nCommitOk, txnSeq,
                   calls>>
    /\ UNCHANGED jsonVars

Managers == {{}, {"tm"}}
RetryCounts == {{}} \cup {{n} : n \in -1 .. MaxRetry}

NextRetry ==
    \/ \E m \in Managers, r \in RetryCounts : Enter(m, r)
    \/ Begin
    \/ Exhausted
    \/ \E joined \in SUBSET DataManagers, v \in Vals : WorkReturns(joined, v)
    \/ \E joined \in SUBSET DataManagers, err \in Errors : WorkRaises(joined, err)
    \/ CommitReturns
    \/ \E err \in Errors : CommitRaises(err)
    \/ Except
    \/ Return

(***************************************************************************)
(* Part II: json.py                                                        *)
(*                                                                         *)
(* Plain lists and dicts live in a heap indexed by identity, so that two   *)
(* references to one list see each other's changes.  A value is            *)
(*   <<"int", n>>, <<"none", 0>>                                           *)
(*   <<"ref", id>>       a plain list or dict                              *)
(*   <<"wrap", kind, d, parent, recs>>                                     *)
(*       a NestedMutationDict / NestedMutationList: d is the id of _d,     *)
(*       parent is __parent__ ({} or {wrapper}), recs the records in       *)
(*       Mutable._parents.  None of the three changes after the wrapper    *)
(*       is set up, so a wrapper is represented by its value.              *)
(* A heap cell is a list (items in seq), a dict (map[k] = {} when k is     *)
(* absent, {v} otherwise) or free.                                         *)
(***************************************************************************)
\* heap cells
MaxObj == 12
\* longest list
MaxLen == 2
\* mutating calls in one behaviour
MaxMut == 2

Records == {"r1", "r2"}
Keys == {"a", "b"}
Ids == 1 .. MaxObj

PyInt(n) == <<"int", n>>
None == <<"none", 0>>
Ref(i) == <<"ref", i>>
IsRef(v) == v[1] = "ref"

NoMap == [k \in Keys |-> {}]
Cell(kind, seq, map) == [kind |-> kind, seq |-> seq, map |-> map]
Free == Cell("free", <<>>, NoMap)
PyList(seq) == Cell("list", seq, NoMap)
PyDict(map) == Cell("dict", <<>>, map)

\* MUTATION_WRAPPERS
MUTATION_WRAPPERS == [dict |-> "NestedMutationDict", list |-> "NestedMutationList"]

\* wrapper(value, __parent__ = parent): NestedMixin.__init__ and
\* MutationDict/MutationList.__init__; Mutable._parents starts empty.
NewWrapper(kind, d, parent) == <<"wrap", kind, d, parent, {}>>
IsWrapper(v) == v[1] = "wrap"
WKind(w) == w[2]
WData(w) == w[3]
WParent(w) == w[4]
WRecs(w) == w[5]
\* data._parents[parent] = key
Bind(w, rec) == <<"wrap", w[2], w[3], w[4], w[5] \cup {rec}>>

\* isinstance(value, typ) for typ in (dict, list)
IsInstance(h, v, typ) == IsRef(v) /\ h[v[2]].kind = typ
IsContainer(v) == IsRef(v) \/ IsWrapper(v)

FreeIds(h) == {i \in Ids : h[i].kind = "free"}
\* the id a new object gets
Alloc(h) == CHOOSE i \in FreeIds(h) : \A j \in FreeIds(h) : i <= j
CanAlloc(h) == FreeIds(h) # {}

\* NestedMixin.try_wrap as it would be with the parent pointer left out.
try_wrap_orphan(h, self, value) ==
    IF IsInstance(h, value, "dict") \/ IsInstance(h, value, "list")
      THEN NewWrapper(MUTATION_WRAPPERS[h[value[2]].kind], value[2], {})
      ELSE value

\* NestedMixin.try_wrap: a dict or list is wrapped with self as parent; any
\* other value (a wrapper stored in the raw data included) is returned as it
\* is.
try_wrap(h, self, value) ==
    IF IsInstance(h, value, "dict") \/ IsInstance(h, value, "list")
      THEN NewWrapper(MUTATION_WRAPPERS[h[value[2]].kind], value[2], {self})
      ELSE value

\* The wrapper at the top of the __parent__ chain.
RECURSIVE TopOf(_)
TopOf(w) == IF WParent(w) = {} THEN w ELSE TopOf(CHOOSE q \in WParent(w) : TRUE)

\* Mutable.changed (line 156): flags the attribute of every record in the
\* wrapper's _parents.
Mutable_changed(dty, w) ==
    [r \in Records |-> IF r \in WRecs(w) THEN dty[r] + 1 ELSE dty[r]]

\* NestedMixin.changed as it would be if the event stopped at the wrapper
\* itself instead of going to __parent__.
changed_not_forwarded(dty, w) == Mutable_changed(dty, w)

\* NestedMixin.changed (lines 151-156): with a __parent__ the event goes to
\* the parent's changed(); without one Mutable.changed takes over.
RECURSIVE changed(_, _)
changed(dty, w) ==
    IF WParent(w) # {}
      THEN changed(dty, CHOOSE q \in WParent(w) : TRUE)
      ELSE Mutable_changed(dty, w)

\* wrap_as_nested as it would be without "data._parents[parent] = key".
wrap_as_nested_unbound(h, data, rec) ==
    IF IsInstance(h, data, "dict") \/ IsInstance(h, data, "list")
      THEN LET c == Alloc(h)
               k == MUTATION_WRAPPERS[h[data[2]].kind]
           IN <<[h EXCEPT ![c] = h[data[2]]], NewWrapper(k, c, {})>>
      ELSE <<h, data>>

\* wrap_as_nested(key, data, parent): <<heap, value>>.  data.copy() is a new
\* list or dict holding the same items.
wrap_as_nested(h, data, rec) ==
    IF IsInstance(h, data, "dict") \/ IsInstance(h, data, "list")
      THEN LET c == Alloc(h)
               k == MUTATION_WRAPPERS[h[data[2]].kind]
           IN <<[h EXCEPT ![c] = h[data[2]]], Bind(NewWrapper(k, c, {}), rec)>>
      ELSE <<h, data>>

\* What is recorded of a call: op is the method for a mutating method of a
\* wrapper, "read" for every method that does not mutate, "plain" for a
\* change the client makes to a plain list or dict, "init" and "attr" for the
\* construction of a record and the read of its attribute.
Call(op, mutates, raised) == [op |-> op, mutates |-> mutates, raised |-> raised]
NoCall == Call("none", FALSE, FALSE)

\* Column defaults with the heap that holds them: {"a": {"b": [1]}}, [1],
\* None and 5.
Defaults ==
    { <<[i \in Ids |-> IF i = 1 THEN PyDict([NoMap EXCEPT !["a"] = {Ref(2)}])
                       ELSE IF i = 2 THEN PyDict([NoMap EXCEPT !["b"] = {Ref(3)}])
                       ELSE IF i = 3 THEN PyList(<<PyInt(1)>>)
                       ELSE Free], Ref(1)>>,
      <<[i \in Ids |-> IF i = 1 THEN PyList(<<PyInt(1)>>) ELSE Free], Ref(1)>>,
      <<[i \in Ids |-> Free], None>>,
      <<[i \in Ids |-> Free], PyInt(5)>> }

InitJson ==
    /\ \E d \in Defaults : heap = d[1] /\ colDefault = d[2]
    /\ attr = [r \in Records |-> {}]
    /\ dirty = [r \in Records |-> 0]
    /\ cur = {}
    /\ curRec = "r1"
    /\ pure = FALSE
    /\ last = NoCall
    /\ muts = 0
    /\ ret = {}

\* with_json_columns.init for a new record: the column default is wrapped
\* and assigned to the attribute.  The records are interchangeable: r1 is
\* the one constructed first.
init(rec) ==
    /\ attr[rec] = {}
    /\ rec = "r2" => attr["r1"] # {}
    /\ CanAlloc(heap)
    /\ LET hv == wrap_as_nested(heap, colDefault, rec) IN
         /\ heap' = hv[1]
         /\ attr' = [attr EXCEPT ![rec] = {hv[2]}]
    /\ last' = Call("init", FALSE, FALSE)
    /\ ret' = {}
    /\ UNCHANGED <<colDefault, dirty, cur, curRec, pure, muts>>
    /\ UNCHANGED retryVars

\* The client reads the attribute of a record.
ReadAttr(rec) ==
    /\ attr[rec] # {}
    /\ cur' = attr[rec]
    /\ curRec' = rec
    /\ pure' = TRUE
    /\ last' = Call("attr", FALSE, FALSE)
    /\ ret' = {}
    /\ UNCHANGED <<heap, colDefault, attr, dirty, muts>>
    /\ UNCHANGED retryVars

\* The value the client holds; for a wrapper, the id of its raw value.
Self == CHOOSE v \in cur : TRUE
HoldsWrapper(kind) == \E v \in cur : IsWrapper(v) /\ WKind(v) = kind
IsDictWrapper == HoldsWrapper("NestedMutationDict")
IsListWrapper == HoldsWrapper("NestedMutationList")
HoldsAnyWrapper == \E v \in cur : IsWrapper(v)
D == WData(Self)

\* cur after a call that returned value: the client goes on with a container
\* it was handed, and keeps what it holds otherwise.
Step(value, byRead) ==
    IF IsContainer(value)
      THEN cur' = {value} /\ pure' = (pure /\ byRead)
      ELSE UNCHANGED <<cur, pure>>

\* The delegated method raised: the replacer is left before self.changed().
Raise(op, mutates) ==
    /\ last' = Call(op, mutates, TRUE)
    /\ ret' = {}
    /\ UNCHANGED <<heap, colDefault, attr, dirty, cur, curRec, pure, muts>>

\* ReadOk as it would be if the method table listed the read as mutating.
ReadOk_signals_changed(value, byGetItem) ==
    /\ Step(value, byGetItem)
    /\ last' = Call("read", FALSE, FALSE)
    /\ ret' = {}
    /\ dirty' = changed(dirty, Self)
    /\ UNCHANGED <<heap, colDefault, attr, curRec, muts>>

\* A call that does not mutate returned value (replacer, lines 85-89 with
\* mutates false, and NestedMixin.__getitem__).
ReadOk(value, byGetItem) ==
    /\ Step(value, byGetItem)
    /\ last' = Call("read", FALSE, FALSE)
    /\ ret' = {}
    /\ UNCHANGED <<heap, colDefault, attr, dirty, curRec, muts>>

\* MutOk as it would be if changed() were signalled only when the method
\* changed the raw value.
MutOk_when_different(op, h, value) ==
    /\ heap' = h
    /\ Step(value, FALSE)
    /\ dirty' = IF h = heap THEN dirty ELSE changed(dirty, Self)
    /\ muts' = muts + 1
    /\ last' = Call(op, TRUE, FALSE)
    /\ ret' = {}
    /\ UNCHANGED <<colDefault, attr, curRec>>

\* A mutating call returned value (replacer, lines 85-89 with mutates true):
\* the method has changed the raw value, giving heap h; then self.changed().
MutOk(op, h, value) ==
    /\ heap' = h
    /\ Step(value, FALSE)
    /\ dirty' = changed(dirty, Self)
    /\ muts' = muts + 1
    /\ last' = Call(op, TRUE, FALSE)
    /\ ret' = {}
    /\ UNCHANGED <<colDefault, attr, curRec>>

\* Indexes the client uses on lists; the larger one is out of range on a
\* list of one item.  New containers enter the data through append and
\* setdefault; the other calls store 7.
Indexes == {0, 1}

\* Arguments the client passes as new items: 7, a new [] or a new {} to
\* setdefault; 7 or a new [] to append.
ArgKinds == {"int", "list", "dict"}
AppendKinds == {"int", "list"}
MakeArg(h, a) ==
    IF a = "int" THEN <<h, PyInt(7)>>
    ELSE LET n == Alloc(h)
         IN <<[h EXCEPT ![n] = IF a = "list" THEN PyList(<<>>) ELSE PyDict(NoMap)],
              Ref(n)>>

CanMutate == muts < MaxMut /\ CanAlloc(heap)

SetMap(h, key, v) == [h EXCEPT ![D].map[key] = v]
SetSeq(h, seq) == [h EXCEPT ![D].seq = seq]
ItemAt(key) == CHOOSE v \in heap[D].map[key] : TRUE

RemoveAt(seq, n) == SubSeq(seq, 1, n - 1) \o SubSeq(seq, n + 1, Len(seq))
InsertAt(seq, n, v) == SubSeq(seq, 1, n - 1) \o <<v>> \o SubSeq(seq, n, Len(seq))

(***************************************************************************)
(* Mapping wrapper (NestedMutationDict).                                   *)
(***************************************************************************)
\* NestedMixin.__getitem__: KeyError when the key is absent.
DictGetItem(key) ==
    /\ IsDictWrapper
    /\ IF heap[D].map[key] = {}
         THEN Raise("read", FALSE)
         ELSE ReadOk(try_wrap(heap, Self, ItemAt(key)), TRUE)
    /\ UNCHANGED retryVars

\* get(key): the replacer hands back what dict.get returns.
DictGet(key) ==
    /\ IsDictWrapper
    /\ ReadOk(IF heap[D].map[key] = {} THEN None ELSE ItemAt(key), FALSE)
    /\ UNCHANGED retryVars

\* keys() and __iter__: the keys of the raw dict.
DictKeys ==
    /\ IsDictWrapper
    /\ ReadOk(<<"keys", {k \in Keys : heap[D].map[k] # {}}>>, FALSE)
    /\ UNCHANGED retryVars

\* __setitem__(key, value)
DictSetItem(key, a) ==
    /\ IsDictWrapper
    /\ CanMutate
    /\ LET hv == MakeArg(heap, a)
       IN MutOk("__setitem__", SetMap(hv[1], key, {hv[2]}), None)
    /\ UNCHANGED retryVars

\* __delitem__(key): KeyError when the key is absent.
DictDelItem(key) ==
    /\ IsDictWrapper
    /\ CanMutate
    /\ IF heap[D].map[key] = {}
         THEN Raise("__delitem__", TRUE)
         ELSE MutOk("__delitem__", SetMap(heap, key, {}), None)
    /\ UNCHANGED retryVars

\* pop(key): KeyError when the key is absent; hands back the stored item.
DictPop(key) ==
    /\ IsDictWrapper
    /\ CanMutate
    /\ IF heap[D].map[key] = {}
         THEN Raise("pop", TRUE)
         ELSE MutOk("pop", SetMap(heap, key, {}), ItemAt(key))
    /\ UNCHANGED retryVars

\* NestedMutationDict.setdefault: a list or dict default is wrapped with self
\* as parent, then dict.setdefault runs on the raw dict through the replacer:
\* it stores and returns the default when the key is absent; otherwise it
\* returns the stored item and the default is dropped.
DictSetDefault(key, a) ==
    /\ IsDictWrapper
    /\ CanMutate
    /\ LET hv == MakeArg(heap, a)
           default == IF a = "int" THEN hv[2]
                      ELSE NewWrapper(MUTATION_WRAPPERS[a], hv[2][2], {Self})
       IN IF heap[D].map[key] = {}
            THEN MutOk("setdefault", SetMap(hv[1], key, {default}), default)
            ELSE MutOk("setdefault", heap, ItemAt(key))
    /\ UNCHANGED retryVars

\* update(other) with other = {} or {"b": 7}
UpdateArgs == {NoMap, [NoMap EXCEPT !["b"] = {PyInt(7)}]}
DictUpdate(other) ==
    /\ IsDictWrapper
    /\ CanMutate
    /\ LET m == [k \in Keys |-> IF other[k] # {} THEN other[k] ELSE heap[D].map[k]]
       IN MutOk("update", [heap EXCEPT ![D].map = m], None)
    /\ UNCHANGED retryVars

(***************************************************************************)
(* Sequence wrapper (NestedMutationList).  Indexes count from 0.           *)
(***************************************************************************)
\* NestedMixin.__getitem__: IndexError when i is out of range.
ListGetItem(i) ==
    /\ IsListWrapper
    /\ IF i >= Len(heap[D].seq)
         THEN Raise("read", FALSE)
         ELSE ReadOk(try_wrap(heap, Self, heap[D].seq[i + 1]), TRUE)
    /\ UNCHANGED retryVars

\* __iter__: the client takes the i-th item the iterator of the raw list gives.
ListIter(i) ==
    /\ IsListWrapper
    /\ i < Len(heap[D].seq)
    /\ ReadOk(heap[D].seq[i + 1], FALSE)
    /\ UNCHANGED retryVars

\* __setitem__(i, value): IndexError when i is out of range.
ListSetItem(i, a) ==
    /\ IsListWrapper
    /\ CanMutate
    /\ IF i >= Len(heap[D].seq)
         THEN Raise("__setitem__", TRUE)
         ELSE LET hv == MakeArg(heap, a)
              IN MutOk("__setitem__", [hv[1] EXCEPT ![D].seq[i + 1] = hv[2]], None)
    /\ UNCHANGED retryVars

\* __delitem__(i): IndexError when i is out of range.
ListDelItem(i) ==
    /\ IsListWrapper
    /\ CanMutate
    /\ IF i >= Len(heap[D].seq)
         THEN Raise("__delitem__", TRUE)
         ELSE MutOk("__delitem__", SetSeq(heap, RemoveAt(heap[D].seq, i + 1)), None)
    /\ UNCHANGED retryVars

\* append(value)
ListAppend(a) ==
    /\ IsListWrapper
    /\ CanMutate
    /\ Len(heap[D].seq) < MaxLen
    /\ LET hv == MakeArg(heap, a)
       IN MutOk("append", SetSeq(hv[1], Append(heap[D].seq, hv[2])), None)
    /\ UNCHANGED retryVars

\* insert(i, value): an index past the end appends.
ListInsert(i, a) ==
    /\ IsListWrapper
    /\ CanMutate
    /\ Len(heap[D].seq) < MaxLen
    /\ LET hv == MakeArg(heap, a)
           n == IF i > Len(heap[D].seq) THEN Len(heap[D].seq) ELSE i
       IN MutOk("insert", SetSeq(hv[1], InsertAt(heap[D].seq, n + 1, hv[2])), None)
    /\ UNCHANGED retryVars

\* extend(other) with other = [] or [7]
ExtendArgs == {<<>>, <<PyInt(7)>>}
ListExtend(other) ==
    /\ IsListWrapper
    /\ CanMutate
    /\ Len(heap[D].seq) + Len(other) <= MaxLen
    /\ MutOk("extend", SetSeq(heap, heap[D].seq \o other), None)
    /\ UNCHANGED retryVars

\* pop(): IndexError on an empty list; hands back the last item.
ListPop ==
    /\ IsListWrapper
    /\ CanMutate
    /\ LET seq == heap[D].seq IN
         IF seq = <<>>
           THEN Raise("pop", TRUE)
           ELSE MutOk("pop", SetSeq(heap, SubSeq(seq, 1, Len(seq) - 1)), seq[Len(seq)])
    /\ UNCHANGED retryVars

\* remove(n): the first item equal to n goes; ValueError when there is none.
ListRemove(n) ==
    /\ IsListWrapper
    /\ CanMutate
    /\ LET seq == heap[D].seq
           at == {x \in 1 .. Len(seq) : seq[x] = PyInt(n)}
       IN IF at = {}
            THEN Raise("remove", TRUE)
            ELSE MutOk("remove",
                       SetSeq(heap, RemoveAt(seq, CHOOSE x \in at : \A y \in at : x <= y)),
                       None)
    /\ UNCHANGED retryVars

(***************************************************************************)
(* Both wrappers.                                                          *)
(***************************************************************************)
\* clear()
Clear ==
    /\ HoldsAnyWrapper
    /\ CanMutate
    /\ MutOk("clear", [heap EXCEPT ![D].seq = <<>>, ![D].map = NoMap], None)
    /\ UNCHANGED retryVars

\* __len__
PyLen ==
    /\ HoldsAnyWrapper
    /\ ReadOk(PyInt(Len(heap[D].seq) + Cardinality({k \in Keys : heap[D].map[k] # {}})),
              FALSE)
    /\ UNCHANGED retryVars

\* The == of Python on values of the model; a wrapper compares as its raw
\* value does (NestedMixin.__eq__).
RECURSIVE PyEqual(_, _, _)
PyEqual(h, x, y) ==
    LET raw(v) == IF IsWrapper(v) THEN Ref(WData(v)) ELSE v
        a == raw(x)
        b == raw(y)
    IN IF IsRef(a) /\ IsRef(b)
         THEN LET p == h[a[2]]
                  q == h[b[2]]
              IN /\ p.kind = q.kind
                 /\ Len(p.seq) = Len(q.seq)
                 /\ \A i \in 1 .. Len(p.seq) : PyEqual(h, p.seq[i], q.seq[i])
                 /\ \A k \in Keys :
                       /\ (p.map[k] = {}) = (q.map[k] = {})
                       /\ \A u \in p.map[k], w \in q.map[k] : PyEqual(h, u, w)
         ELSE a = b

\* __eq__(other), other being the default of the column.
PyEq ==
    /\ HoldsAnyWrapper
    /\ ReadOk(<<"bool", PyEqual(heap, Self, colDefault)>>, FALSE)
    /\ UNCHANGED retryVars

\* NestedMixin.__repr__ / __str__: the id, the class and the raw value.
Repr ==
    /\ HoldsAnyWrapper
    /\ ReadOk(<<"str", WKind(Self), D>>, FALSE)
    /\ UNCHANGED retryVars

\* The items of the raw value of a wrapper in the order __json__ goes through
\* them: the items of a list, the values of a dict by key.
KeyOrder == <<"a", "b">>
KeysOf(cell) == SelectSeq(KeyOrder, LAMBDA k : cell.map[k] # {})
ItemsOf(cell) ==
    IF cell.kind = "list" THEN cell.seq
    ELSE [i \in 1 .. Len(KeysOf(cell)) |-> CHOOSE v \in cell.map[KeysOf(cell)[i]] : TRUE]

\* hasattr(value, '__json__'): the wrappers have it, plain values do not.
HasJson(v) == IsWrapper(v)

\* __json__ as it would be if it put None in the place of an item that has
\* __json__.
ProjectItems_none(h, items) ==
    <<h, [i \in 1 .. Len(items) |-> IF HasJson(items[i]) THEN None ELSE items[i]]>>

\* MutationDict.__json__ / MutationList.__json__: <<heap, value>>.  A new
\* dict or list is built: an item that has __json__ is replaced by its own
\* projection, every other item (a plain list or dict included) is put in
\* as it is.
RECURSIVE __json__(_, _)
RECURSIVE ProjectItems(_, _)
ProjectItems(h, items) ==
    IF items = <<>> THEN <<h, <<>>>>
    ELSE LET first == IF HasJson(Head(items)) THEN __json__(h, Head(items))
                      ELSE <<h, Head(items)>>
             rest == ProjectItems(first[1], Tail(items))
         IN <<rest[1], <<first[2]>> \o rest[2]>>

__json__(h, w) ==
    LET cell == h[WData(w)]
        r == ProjectItems(h, ItemsOf(cell))
        n == Alloc(r[1])
        ks == KeysOf(cell)
        new == IF cell.kind = "list" THEN PyList(r[2])
               ELSE PyDict([k \in Keys |->
                              {r[2][i] : i \in {j \in 1 .. Len(ks) : ks[j] = k}}])
    IN <<[r[1] EXCEPT ![n] = new], Ref(n)>>

\* Cells left for the objects one __json__ call followed by one
\* wrap_as_nested call creates: one per wrapper on the way down, and the copy.
Room == Cardinality(FreeIds(heap)) >= MaxMut + 2

\* __json__ and coerce are called on the values the client reaches with
\* fewer than MaxMut mutating calls made.
CanObserve == muts < MaxMut

\* The client calls __json__() on the wrapper it holds.
ToJson ==
    /\ HoldsAnyWrapper
    /\ CanObserve
    /\ Room
    /\ ret' = {__json__(heap, Self)}
    /\ last' = Call("__json__", FALSE, FALSE)
    /\ UNCHANGED <<heap, colDefault, attr, dirty, cur, curRec, pure, muts>>
    /\ UNCHANGED retryVars

\* What a call gives: a value, or an exception.
Gives(v) == [raised |-> FALSE, value |-> v]
Throws == [raised |-> TRUE, value |-> None]

\* The dict or list a wrapper class wraps (_wraps).
Wraps(cls) == IF cls = "NestedMutationDict" THEN "dict" ELSE "list"

\* coerce as it would be if it wrapped the raw value of a wrapper again.
coerce_rewraps(cls, h, value) ==
    IF IsWrapper(value) /\ WKind(value) = cls THEN Gives(NewWrapper(cls, WData(value), {}))
    ELSE IF IsInstance(h, value, Wraps(cls)) THEN Gives(NewWrapper(cls, value[2], {}))
    ELSE IF value = None THEN Gives(None)
    ELSE Throws

\* MutationDict.coerce / MutationList.coerce called on the nested class cls:
\* a wrapper of that kind is returned as it is, a plain value of the wrapped
\* type is wrapped by cls(value), with no parent; anything else goes to
\* Mutable.coerce, which lets None through and raises ValueError otherwise.
coerce(cls, h, value) ==
    IF IsWrapper(value) /\ WKind(value) = cls THEN Gives(value)
    ELSE IF IsInstance(h, value, Wraps(cls)) THEN Gives(NewWrapper(cls, value[2], {}))
    ELSE IF value = None THEN Gives(None)
    ELSE Throws

WrapperClasses == {"NestedMutationDict", "NestedMutationList"}

\* The client calls cls.coerce(key, value) on the value it holds.
Coerce(cls) ==
    /\ cur # {}
    /\ CanObserve
    /\ LET r == coerce(cls, heap, Self) IN
         /\ ret' = IF r.raised THEN {} ELSE {<<heap, r.value>>}
         /\ last' = Call("coerce", FALSE, r.raised)
    /\ UNCHANGED <<heap, colDefault, attr, dirty, cur, curRec, pure, muts>>
    /\ UNCHANGED retryVars

\* The client mutates in place a plain list or dict it was handed: append(7)
\* on a list, ["b"] = 7 on a dict.  No wrapper is involved.
PlainMutate ==
    /\ \E v \in cur : IsRef(v)
    /\ muts < MaxMut
    /\ LET i == Self[2] IN
         IF heap[i].kind = "list"
           THEN /\ Len(heap[i].seq) < MaxLen
                /\ heap' = [heap EXCEPT ![i].seq = Append(@, PyInt(7))]
           ELSE heap' = [heap EXCEPT ![i].map["b"] = {PyInt(7)}]
    /\ muts' = muts + 1
    /\ last' = Call("plain", TRUE, FALSE)
    /\ ret' = {}
    /\ UNCHANGED <<colDefault, attr, dirty, cur, curRec, pure>>
    /\ UNCHANGED retryVars

NextJson ==
    \/ \E rec \in Records : init(rec)
    \/ \E rec \in Records : ReadAttr(rec)
    \/ \E key \in Keys : DictGetItem(key)
    \/ \E key \in Keys : DictGet(key)
    \/ DictKeys
    \/ \E key \in Keys : DictSetItem(key, "int")
    \/ \E key \in Keys : DictDelItem(key)
    \/ \E key \in Keys : DictPop(key)
    \/ \E key \in Keys, a \in ArgKinds : DictSetDefault(key, a)
    \/ \E other \in UpdateArgs : DictUpdate(other)
    \/ \E i \in Indexes : ListGetItem(i)
    \/ \E i \in Indexes : ListIter(i)
    \/ \E i \in Indexes : ListSetItem(i, "int")
    \/ \E i \in Indexes : ListDelItem(i)
    \/ \E a \in AppendKinds : ListAppend(a)
    \/ \E i \in Indexes : ListInsert(i, "int")
    \/ \E other \in ExtendArgs : ListExtend(other)
    \/ ListPop
    \/ \E n \in {1, 7} : ListRemove(n)
    \/ Clear
    \/ PyLen
    \/ PyEq
    \/ Repr
    \/ ToJson
    \/ \E cls \in WrapperClasses : Coerce(cls)
    \/ PlainMutate

(***************************************************************************)
(* Specifications.  The two subsystems do not interact: each is checked    *)
(* with the other one at rest.                                             *)
(***************************************************************************)
InitSpecRetry ==
    /\ InitRetry
    /\ InitJson
    /\ colDefault = None

SpecRetry == InitSpecRetry /\ [][NextRetry]_vars

InitSpecJson ==
    /\ InitJson
    /\ InitRetry
    /\ _txn = {}

SpecJson == InitSpecJson /\ [][NextJson]_vars

(***************************************************************************)
(* Properties of the retry decorator.                                      *)
(***************************************************************************)
Ended == pc = "done"

\* The invocation passed both preconditions with a bound of at least 1.
Configured ==
    /\ manager # {}
    /\ entryTxn = {}
    /\ \E n \in retry_attempt_count : n >= 1

AllAttemptsRetryable ==
    \A i \in 1 .. Len(attempts) : ~attempts[i].committed /\ attempts[i].retryable

OutcomeType(t) ==
    /\ outcome.kind = "raise"
    /\ \E e \in outcome.exc : e.type = t

\* C1: with a bound N >= 1 and no transaction at entry, an invocation in
\* which every attempt failed with a retryable error has called begin() N
\* times and func N times and fails with CannotRetryAnymore whose cause is
\* the exception of the N-th attempt.
C1_ExhaustedAfterNAttempts ==
    (Ended /\ Configured /\ AllAttemptsRetryable) =>
        \A n \in retry_attempt_count :
            /\ nBegin = n
            /\ nWork = n
            /\ Len(attempts) = n
            /\ OutcomeType("CannotRetryAnymore")
            /\ outcome.cause = attempts[n].exc
            /\ outcome.cause # {}

C1_Witness ==
    /\ Ended /\ Configured /\ AllAttemptsRetryable
    /\ retry_attempt_count = {MaxRetry}
    /\ nBegin = MaxRetry
    /\ OutcomeType("CannotRetryAnymore")
    /\ \E e \in outcome.cause : e.at = MaxRetry - 1 /\ e.src = "commit"

\* C2: when attempts 1..K-1 failed with a retryable error and attempt K
\* committed, the invocation made exactly K begin() and K func calls, returns
\* the value func returned in attempt K, and nothing runs after the commit.
C2_SuccessOnAttemptK ==
    /\ (Ended /\ Configured /\ Len(attempts) >= 1 /\ attempts[Len(attempts)].committed) =>
          LET K == Len(attempts) IN
            /\ \A i \in 1 .. K - 1 : attempts[i].retryable /\ ~attempts[i].committed
            /\ nBegin = K
            /\ nWork = K
            /\ outcome.kind = "return"
            /\ outcome.val = attempts[K].val
            /\ outcome.val # {}
    /\ nCommitOk >= 1 => pc \in {"done", "idle"}

C2_Witness ==
    /\ Ended /\ Configured
    /\ Len(attempts) = 2
    /\ attempts[2].committed
    /\ attempts[1].val = {1}
    /\ outcome = [kind |-> "return", val |-> {2}, exc |-> {}, cause |-> {}]
    /\ retry_attempt_count = {MaxRetry}

\* C3: an attempt whose exception no participating resource manager
\* classifies as retryable ends the invocation with that same exception:
\* no begin() and no func call follows it.
C3_NonRetryablePropagates ==
    \A k \in 1 .. Len(attempts) :
        (\E e \in attempts[k].exc : ~attempts[k].retryable) =>
            /\ k = Len(attempts)
            /\ pc \in {"done", "idle"}
            /\ outcome.kind = "raise"
            /\ outcome.exc = attempts[k].exc
            /\ outcome.cause = {}
            /\ nBegin = k
            /\ nWork = k

C3_Witness ==
    /\ Ended /\ Configured
    /\ retry_attempt_count = {MaxRetry}
    /\ Len(attempts) = 1
    /\ nBegin = 1
    /\ \E e \in outcome.exc : e.type = "app" /\ e.err = "value" /\ e.at = 0

\* C4: an invocation entered while the manager has an active transaction
\* fails with TransactionAlreadyInProcess whatever retry_attempt_count is,
\* with no begin() and no func call, and leaves _txn and latest_retry_count
\* as they were.
C4_AlreadyInTransaction ==
    (pc # "idle" /\ manager # {} /\ entryTxn # {}) =>
        /\ Ended
        /\ OutcomeType("TransactionAlreadyInProcess")
        /\ nBegin = 0
        /\ nWork = 0
        /\ _txn = entryTxn
        /\ latest_retry_count = entryLatest

C4_Witness ==
    /\ Ended /\ manager # {} /\ entryTxn # {}
    /\ retry_attempt_count = {MaxRetry}
    /\ entryLatest # {}
    /\ OutcomeType("TransactionAlreadyInProcess")

\* C5: with no transaction at entry, a null manager or a retry_attempt_count
\* that is absent, zero or negative makes the invocation fail with
\* NotRetryable without begin() and without func.
C5_NotConfigured ==
    (Ended /\ entryTxn = {}
       /\ (manager = {} \/ \A n \in retry_attempt_count : n <= 0)) =>
        /\ OutcomeType("NotRetryable")
        /\ nBegin = 0
        /\ nWork = 0

\* C6: commit() is called only after the attempt's func returned; the
\* invocation returns a value exactly when its last step was a commit that
\* succeeded, its only one; an invocation that raises committed nothing.
C6_NoPartialCommit ==
    /\ pc = "commit" => workOut = "returned"
    /\ nCommit <= nWork
    /\ nCommitOk <= 1
    /\ outcome.kind = "return" <=> nCommitOk = 1
    /\ outcome.kind = "return" =>
          /\ Len(attempts) >= 1
          /\ attempts[Len(attempts)].committed
          /\ \A i \in 1 .. Len(attempts) - 1 : ~attempts[i].committed
    /\ outcome.kind = "raise" => nCommitOk = 0
    /\ Ended => outcome.kind \in {"return", "raise"}

C6_Witness ==
    /\ Ended
    /\ outcome.kind = "raise"
    /\ nCommit = MaxRetry
    /\ nCommitOk = 0
    /\ nWork = MaxRetry

\* The attempt whose exception is being handled has a participating resource
\* manager with a should_retry predicate that is true for the exception:
\* only "sql" has one that is ever true, and only for a conflict.
SomeManagerVotesRetry ==
    /\ "sql" \in resources
    /\ \E e \in exc : e.err = "conflict"

\* C14: the handler of an attempt's exception, raised by func or by commit(),
\* goes on to the loop exactly when a participating resource manager has a
\* should_retry predicate that is true for the exception, and otherwise ends
\* the invocation with that exception; a manager without the predicate and
\* an empty set of managers give no retry.  Back at the loop after a failed
\* attempt, begin() is called exactly when the range has a value left.
C14_RetryClassification ==
    [][ /\ pc = "except" =>
              /\ pc' = "loop" <=> SomeManagerVotesRetry
              /\ ~SomeManagerVotesRetry => pc' = "done" /\ outcome'.exc = exc
              /\ resources \subseteq {"mail", "cache"} => pc' = "done"
              /\ nBegin' = nBegin
        /\ (pc = "loop" /\ nBegin >= 1) =>
              /\ nBegin' = nBegin + 1 <=> \E n \in retry_attempt_count : nBegin < n
              /\ nBegin' = nBegin => pc' = "done"
      ]_vars

\* A second attempt runs after commit() of the first raised a conflict with
\* "sql" and "mail" participating.
C14_Witness ==
    /\ pc = "work"
    /\ nBegin = 2
    /\ Len(attempts) = 1
    /\ attempts[1].val # {}
    /\ \E e \in latest_exc : e.src = "commit" /\ e.err = "conflict" /\ e.at = 0

\* C15: from the first begin() of an invocation on, while func runs and
\* after the invocation has ended, manager.latest_retry_count is the number
\* of begin() calls the invocation has made so far minus one: K-1 after a
\* commit in attempt K, N-1 after CannotRetryAnymore, 0 after an error of
\* the first attempt that is not retried.  An invocation that made no
\* begin() call leaves it as it was at entry.
C15_LatestRetryCount ==
    /\ (pc # "idle" /\ nBegin >= 1) => latest_retry_count = {nBegin - 1}
    /\ (pc # "idle" /\ nBegin = 0) => latest_retry_count = entryLatest
    /\ (Ended /\ outcome.kind = "return") => latest_retry_count = {Len(attempts) - 1}
    /\ (Ended /\ OutcomeType("CannotRetryAnymore")) =>
           \A n \in retry_attempt_count : latest_retry_count = {n - 1}
    /\ (Ended /\ OutcomeType("app") /\ Len(attempts) = 1) => latest_retry_count = {0}
    /\ (Ended /\ manager # {} /\ (entryTxn # {} \/ NotConfigured(retry_attempt_count))) =>
           latest_retry_count = entryLatest

\* A second invocation ran out of attempts after the first one had ended in
\* its first attempt.
C15_Witness ==
    /\ Ended
    /\ calls = 2
    /\ entryLatest = {0}
    /\ OutcomeType("CannotRetryAnymore")
    /\ retry_attempt_count = {MaxRetry}
    /\ latest_retry_count = {MaxRetry - 1}

\* C16: within one invocation the calls come in the order begin, func,
\* commit, begin, func, commit, ...: func runs only in the attempt begun
\* last, commit only after func of that attempt returned, and begin() of a
\* further attempt only when the attempt before it is over with an error a
\* resource manager accepted for a retry.  That begin() is made while the
\* manager still has the transaction of the failed attempt and replaces it;
\* TransactionAlreadyInProcess is raised only before the first begin().
C16_AttemptsSerialize ==
    [][ /\ (pc # "idle" /\ nWork' = nWork + 1) =>
              /\ nBegin = nWork + 1
              /\ Len(attempts) = nWork
              /\ nBegin' = nBegin
        /\ (pc # "idle" /\ nCommit' = nCommit + 1) =>
              /\ workOut = "returned"
              /\ nBegin = nWork
              /\ Len(attempts) = nWork - 1
              /\ nBegin' = nBegin /\ nWork' = nWork
        /\ (pc # "idle" /\ nBegin' = nBegin + 1) =>
              /\ nWork = nBegin
              /\ Len(attempts) = nBegin
              /\ nBegin >= 1 =>
                    /\ attempts[nBegin].exc # {}
                    /\ attempts[nBegin].exc = latest_exc
                    /\ attempts[nBegin].retryable
                    /\ ~attempts[nBegin].committed
                    /\ _txn = txn /\ _txn # {}
                    /\ _txn' # {} /\ _txn' # _txn
        /\ (pc' = "done" /\ OutcomeType("TransactionAlreadyInProcess")') =>
              nBegin' = 0 /\ (pc = "idle" \/ pc = "done")
      ]_vars

\* The third attempt runs after func of the first and commit() of the second
\* raised a conflict.
C16_Witness ==
    /\ pc = "work"
    /\ nBegin = 3
    /\ nWork = 2
    /\ nCommit = 1
    /\ Len(attempts) = 2
    /\ attempts[1].val = {} /\ attempts[2].val # {}
    /\ _txn = {txnSeq}

\* C20: the decorator never ends a transaction other than by the commit
\* that succeeds.  The manager's transaction is cleared only by a commit()
\* that returned; an invocation that began a transaction and ends with an
\* exception leaves the transaction of its last attempt as the manager's
\* current one, and the invocation that follows it on the manager fails
\* with TransactionAlreadyInProcess without begin() and without func; an
\* invocation that returns leaves the manager without a transaction.
C20_NeverAborts ==
    [][ /\ (_txn # {} /\ _txn' = {}) =>
              /\ nCommitOk' = nCommitOk + 1
              /\ pc' = "done"
              /\ outcome'.kind = "return"
        /\ (pc # "done" /\ pc' = "done" /\ nBegin' >= 1) =>
              IF outcome'.kind = "return"
                THEN _txn' = {}
                ELSE _txn' = txn' /\ _txn' = {txnSeq'}
        /\ (pc = "idle" /\ pc' # "idle" /\ nBegin >= 1 /\ outcome.kind = "raise"
               /\ manager' # {}) =>
              /\ _txn # {}
              /\ pc' = "done"
              /\ OutcomeType("TransactionAlreadyInProcess")'
              /\ nBegin' = 0 /\ nWork' = 0
              /\ _txn' = _txn /\ txnSeq' = txnSeq
      ]_vars

\* The invocation after one that used up all MaxRetry attempts was rejected.
C20_Witness ==
    /\ Ended
    /\ calls = 2
    /\ txnSeq = MaxRetry
    /\ entryTxn = {MaxRetry}
    /\ _txn = {MaxRetry}
    /\ retry_attempt_count = {MaxRetry}
    /\ nBegin = 0
    /\ OutcomeType("TransactionAlreadyInProcess")

(***************************************************************************)
(* Properties of the nested mutable tracker.                               *)
(***************************************************************************)
\* The plain lists and dicts that make up the data of value v.
RECURSIVE Under(_, _)
Under(h, v) ==
    IF IsRef(v)
      THEN {v[2]} \cup
           UNION {Under(h, h[v[2]].seq[i]) : i \in 1 .. Len(h[v[2]].seq)} \cup
           UNION {Under(h, x) : x \in UNION {h[v[2]].map[k] : k \in Keys}}
      ELSE IF IsWrapper(v) THEN Under(h, Ref(WData(v)))
      ELSE {}

\* The data stored in the attribute of record r.
UnderRecord(h, r) == UNION {Under(h, v) : v \in attr[r]}

\* This step is a mutating call on a wrapper that returned.
MutatingCallReturned ==
    /\ muts' = muts + 1
    /\ last'.mutates
    /\ ~last'.raised
    /\ last'.op # "plain"

\* The client holds a nested wrapper it reached from the attribute of curRec
\* by indexed/key reads alone.
HoldsNestedByReads ==
    /\ pure
    /\ HoldsAnyWrapper
    /\ WParent(Self) # {}

\* C7: every mutating call (one that returns) on a nested wrapper reached
\* from a record's attribute by a chain of indexed/key reads changes data
\* stored under that attribute and flags that record's attribute exactly
\* once, the attribute itself not being reassigned.
C7_NestedMutationMarksRoot ==
    [][(HoldsNestedByReads /\ MutatingCallReturned) =>
          /\ D \in UnderRecord(heap, curRec)
          /\ dirty' = [dirty EXCEPT ![curRec] = @ + 1]
          /\ attr' = attr]_vars

\* C8: a call that does not mutate, at any depth and whether it returns or
\* raises, leaves the dirty flags, the raw values and the attributes as they
\* were.
C8_ReadsChangeNothing ==
    [][last'.op = "read" => (dirty' = dirty /\ heap' = heap /\ attr' = attr)]_vars

Depth(w) == IF WParent(w) = {} THEN 0
            ELSE IF WParent(CHOOSE q \in WParent(w) : TRUE) = {} THEN 1 ELSE 2

C8_Witness ==
    /\ last = Call("read", FALSE, FALSE)
    /\ HoldsAnyWrapper
    /\ Depth(Self) = 2
    /\ pure
    /\ muts = 1
    /\ dirty[curRec] = 1

\* C9: every list or dict a wrapper hands to the client (by an indexed/key
\* read, get, iteration, pop or setdefault) is a wrapper whose parent chain
\* ends at the wrapper bound to the record it was reached from.
C9_AccessGivesTrackedWrapper ==
    \A v \in cur : IsContainer(v) => (IsWrapper(v) /\ curRec \in WRecs(TopOf(v)))

\* C10: setdefault with a list or dict default, on a key that is absent or
\* holds a list or dict, returns a wrapper whose parent is the mapping
\* wrapper, and so does a later read of the key.
C10_SetDefaultGivesTrackedWrapper ==
    [][\A key \in Keys, a \in {"list", "dict"} :
          (/\ DictSetDefault(key, a)
           /\ heap[D].map[key] = {} \/ IsContainer(ItemAt(key)))
          => /\ \A v \in cur' : IsWrapper(v) /\ WParent(v) = {Self}
             /\ \A x \in heap'[D].map[key] :
                   LET v == try_wrap(heap', Self, x)
                   IN IsWrapper(v) /\ WParent(v) = {Self}]_vars

\* The client holds a wrapper and the last call was __json__() on it.
Projected == last.op = "__json__" /\ ret # {} /\ HoldsAnyWrapper

\* The items directly in the raw value of wrapper w.
DirectItems(h, w) ==
    {h[WData(w)].seq[i] : i \in 1 .. Len(h[WData(w)].seq)} \cup
    UNION {h[WData(w)].map[k] : k \in Keys}

\* C11: the projection __json__ gives for a tracked container, wrapped again
\* with wrap_as_nested, is a wrapper equal to the original under the
\* equality of the wrapper (that of the wrapped raw values).
C11_RoundTrip ==
    Projected =>
        \A p \in ret :
            LET again == wrap_as_nested(p[1], p[2], curRec)
            IN /\ IsWrapper(again[2])
               /\ WKind(again[2]) = WKind(Self)
               /\ PyEqual(again[1], Self, again[2])
               /\ PyEqual(again[1], again[2], Self)

\* A projection of the dict of a record's attribute that holds a wrapper
\* stored by setdefault next to a plain nested dict.
C11_Witness ==
    /\ Projected
    /\ IsDictWrapper
    /\ cur = attr[curRec]
    /\ \E x \in DirectItems(heap, Self) : IsWrapper(x)
    /\ \E x \in DirectItems(heap, Self) : IsRef(x)

\* C12: the construction of a record assigns to its JSON attribute, for a
\* dict or list default, a wrapper of the matching kind with no parent
\* wrapper and bound to that record alone, and for any other default that
\* default itself; a mutating call on the attribute's wrapper then flags the
\* record's attribute once.
C12_ConstructionWiring ==
    [][/\ \A r \in Records :
            (attr[r] = {} /\ attr'[r] # {}) =>
                \A v \in attr'[r] :
                    IF IsRef(colDefault)
                      THEN /\ IsWrapper(v)
                           /\ WKind(v) = MUTATION_WRAPPERS[heap[colDefault[2]].kind]
                           /\ WParent(v) = {}
                           /\ WRecs(v) = {r}
                      ELSE v = colDefault
       /\ (MutatingCallReturned /\ HoldsAnyWrapper /\ cur = attr[curRec]) =>
              dirty'[curRec] = dirty[curRec] + 1]_vars

\* The first mutating call on the list wrapper a new record got from the
\* default [1].
C12_Witness ==
    /\ IsListWrapper
    /\ cur = attr[curRec]
    /\ last.mutates /\ ~last.raised /\ last.op # "plain"
    /\ muts = 1
    /\ dirty[curRec] = 1

\* C13: coerce on a wrapper of the matching kind gives that wrapper, parent
\* and contents as they were; coerce on a plain dict or list of the wrapped
\* type gives a new wrapper around it with no parent; and coerce applied to
\* what coerce gave gives the same again.
C13_CoerceIdempotent ==
    [][(last'.op = "coerce" /\ ~last'.raised /\ cur # {}) =>
          /\ heap' = heap /\ dirty' = dirty /\ cur' = cur
          /\ \A p \in ret' :
                /\ IsWrapper(Self) => p[2] = Self
                /\ IsRef(Self) =>
                      /\ IsWrapper(p[2])
                      /\ WKind(p[2]) = MUTATION_WRAPPERS[heap[Self[2]].kind]
                      /\ WData(p[2]) = Self[2]
                      /\ WParent(p[2]) = {}
                      /\ WRecs(p[2]) = {}
                /\ IsWrapper(p[2]) => coerce(WKind(p[2]), heap', p[2]) = Gives(p[2])
                /\ \A cls \in WrapperClasses :
                      LET twice == coerce(cls, heap', p[2])
                      IN ~twice.raised => twice.value = p[2]]_vars

\* coerce has given back a nested wrapper, its parent included.
C13_Witness ==
    /\ last = Call("coerce", FALSE, FALSE)
    /\ HoldsAnyWrapper
    /\ WParent(Self) # {}
    /\ ret = {<<heap, Self>>}

\* The wrappers a changed event on w visits: w, its __parent__, and so on.
RECURSIVE Chain(_)
Chain(w) ==
    IF WParent(w) = {} THEN <<w>>
    ELSE <<w>> \o Chain(CHOOSE q \in WParent(w) : TRUE)

\* C17: the changed event of a mutating call that returned goes from the
\* wrapper up its chain of parents, each the __parent__ of the one before,
\* no wrapper twice, and ends at the wrapper without a parent; the records
\* bound to that wrapper are flagged once each and no other record is
\* flagged, whatever the wrappers below the top are bound to.
C17_ChangedPropagation ==
    [][(MutatingCallReturned /\ HoldsAnyWrapper) =>
          LET chain == Chain(Self)
              top == chain[Len(chain)]
          IN /\ Len(chain) <= MaxObj
             /\ \A i \in 1 .. Len(chain) - 1 : WParent(chain[i]) = {chain[i + 1]}
             /\ \A i, j \in 1 .. Len(chain) : i # j => chain[i] # chain[j]
             /\ WParent(top) = {}
             /\ \A r \in Records :
                   dirty'[r] = dirty[r] + (IF r \in WRecs(top) THEN 1 ELSE 0)
    ]_vars

\* A mutating call returned on a wrapper two reads below the attribute of a
\* record, and the record is flagged.
C17_Witness ==
    /\ last.mutates /\ ~last.raised /\ last.op # "plain"
    /\ HoldsAnyWrapper
    /\ Len(Chain(Self)) = 3
    /\ WRecs(Chain(Self)[3]) = {curRec}
    /\ dirty[curRec] = 1
    /\ muts = 1

\* The wrappers found at any depth inside value v.
RECURSIVE WrappersIn(_, _)
WrappersIn(h, v) ==
    IF IsWrapper(v) THEN {v} \cup WrappersIn(h, Ref(WData(v)))
    ELSE IF IsRef(v)
      THEN UNION {WrappersIn(h, h[v[2]].seq[i]) : i \in 1 .. Len(h[v[2]].seq)} \cup
           UNION {WrappersIn(h, x) : x \in UNION {h[v[2]].map[k] : k \in Keys}}
      ELSE {}

\* C18: the result of __json__ on any tracked container the client can
\* reach holds plain dicts, plain lists and primitives only: no wrapper at
\* any depth inside it.
C18_PlainProjection ==
    Projected => \A p \in ret : WrappersIn(p[1], p[2]) = {}

\* C19: a call of a mutating method on a wrapper signals changed exactly
\* when the method of the raw value returns.  When it raises, the raw
\* values, the dirty flags and the attributes are as before the call; when
\* it returns, the records bound to the top of the wrapper's chain are
\* flagged once each, also when the raw values are as before the call.
C19_ChangedIffReturned ==
    [][(last'.mutates /\ last'.op # "plain" /\ HoldsAnyWrapper) =>
          IF last'.raised
            THEN heap' = heap /\ dirty' = dirty /\ attr' = attr /\ muts' = muts
            ELSE /\ WRecs(TopOf(Self)) # {}
                 /\ \A r \in Records :
                       dirty'[r] = dirty[r] + (IF r \in WRecs(TopOf(Self)) THEN 1 ELSE 0)
    ]_vars

\* setdefault of a key that is present in the dict of a record's attribute
\* returned the item stored there: the dict is as the column default it was
\* copied from, and the record is flagged.
C19_Witness ==
    /\ last = Call("setdefault", TRUE, FALSE)
    /\ muts = 1
    /\ IsRef(colDefault)
    /\ \E w \in attr[curRec] :
          /\ IsWrapper(w)
          /\ heap[WData(w)] = heap[colDefault[2]]
          /\ heap[WData(w)].map["a"] = cur
    /\ \A r \in Records : attr[r] # {} <=> r = curRec
    /\ dirty[curRec] = 1

\* C21: records constructed from the same literal column default do not
\* share data.  A mutating call that returned on a wrapper reached from the
\* attribute of one record by indexed/key reads, at any depth, leaves every
\* plain list and dict under the attribute of every other record and under
\* the column default as it was, and flags no other record.
C21_DefaultIsolation ==
    [][(MutatingCallReturned /\ pure /\ HoldsAnyWrapper) =>
          /\ \A o \in Records \ {curRec} :
                /\ \A i \in UnderRecord(heap, o) : heap'[i] = heap[i]
                /\ dirty'[o] = dirty[o]
          /\ \A i \in Under(heap, colDefault) : heap'[i] = heap[i]
    ]_vars

====
